---- MODULE Spec2Model ----
(***************************************************************************)
(* Model of streamlit_UI_final.py: the annotation session (ldapid,         *)
(* scene_idx, scene_results, submitted_movie held in st.session_state),    *)
(* the per-annotator JSON file written by save_progress, and the three     *)
(* button handlers that the script runs when it is re-executed on a click. *)
(*                                                                         *)
(* Optional values (Python None) are sequences: None is the empty          *)
(* sequence, Some(x) the one-element sequence.  Strings that the code      *)
(* inspects character by character (the LDAP id) are sequences of          *)
(* one-character strings.                                                  *)
(***************************************************************************)
EXTENDS Integers, Sequences, FiniteSets, TLC

\* ---------------------------------------------------------------- bounds
\* Largest catalog (number of keys of small_scenes.json) explored.
MaxScenes == 3

\* ---------------------------------------------------------------- values
None == <<>>
Some(x) == <<x>>

\* Keys of the catalog file, in file order, and the record stored under each.
AllSceneKeys == <<"k1", "k2", "k3", "k4", "k5">>

SCENES == [k \in {"k1", "k2", "k3", "k4", "k5"} |->
             [scene_id |-> CASE k = "k1" -> "s1"
                             [] k = "k2" -> "s2"
                             [] k = "k3" -> "s3"
                             [] k = "k4" -> "s4"
                             [] k = "k5" -> "s5"]]

\* Options of the radio widgets.
RatingOptions == {1, 2, 3, 4, 5}
PairOptions == {"Movie A", "Movie B", "Tie"}

\* Texts typed into the LDAP id box.
RawInputs == { <<>>, <<" ", " ">>, <<" ", "a", " ">>, <<"a">> }

Whitespace == {" "}

\* Widget values of the scene form when its button is clicked.
SceneForms ==
  { f \in { [bgA |-> 1, charA |-> 1, cineA |-> 1,
             bgB |-> 1, charB |-> 1, cineB |-> 1,
             pair_bg |-> "Movie A", pair_char |-> "Movie A",
             pair_cine |-> "Movie A", comment |-> "ok"],
            [bgA |-> 3, charA |-> 4, cineA |-> 5,
             bgB |-> 2, charB |-> 2, cineB |-> 2,
             pair_bg |-> "Movie A", pair_char |-> "Movie A",
             pair_cine |-> "Tie", comment |-> ""] } :
      /\ {f.bgA, f.charA, f.cineA, f.bgB, f.charB, f.cineB} \subseteq RatingOptions
      /\ {f.pair_bg, f.pair_char, f.pair_cine} \subseteq PairOptions }

\* Widget values of the movie-level form when its button is clicked.
MovieForms ==
  { f \in { [narA |-> 5, charA_m |-> 5, spaceA |-> 5,
             narB |-> 1, charB_m |-> 1, spaceB |-> 1,
             pair_nar |-> "Movie A", pair_char |-> "Movie A",
             pair_space |-> "Movie A"],
            [narA |-> 2, charA_m |-> 3, spaceA |-> 4,
             narB |-> 4, charB_m |-> 4, spaceB |-> 4,
             pair_nar |-> "Movie B", pair_char |-> "Tie",
             pair_space |-> "Movie B"] } :
      /\ {f.narA, f.charA_m, f.spaceA, f.narB, f.charB_m, f.spaceB} \subseteq RatingOptions
      /\ {f.pair_nar, f.pair_char, f.pair_space} \subseteq PairOptions }

\* What can happen to the file write inside save_progress.
\*   ok          the file is opened, written and closed
\*   open_fails  open(out_path, "w") raises before the file is touched
\*   write_fails the file was opened (truncated) and the dump raised part way
\*   killed      the process stopped part way through the dump
Fates == {"ok", "open_fails", "write_fails", "killed"}

VARIABLES
  SCENE_IDS,        \* list(SCENES.keys())
  ldapid,           \* st.session_state.ldapid: None or Some(id)
  scene_idx,        \* st.session_state.scene_idx
  scene_results,    \* st.session_state.scene_results
  submitted_movie,  \* st.session_state.submitted_movie
  files,            \* saved_annotations/annotations_<id>.json, by id
  page,             \* what the last run of the script rendered
  outcome,          \* how the last run of the script ended
  writes,           \* calls of save_progress made by the last run
  last              \* the event that caused the last run

session == <<ldapid, scene_idx, scene_results, submitted_movie>>
vars == <<SCENE_IDS, ldapid, scene_idx, scene_results, submitted_movie,
          files, page, outcome, writes, last>>

TOTAL_SCENES == Len(SCENE_IDS)

\* ------------------------------------------------------------- helpers
RECURSIVE lstrip(_)
lstrip(s) == IF s # <<>> /\ Head(s) \in Whitespace THEN lstrip(Tail(s)) ELSE s

RECURSIVE rstrip(_)
rstrip(s) == IF s # <<>> /\ s[Len(s)] \in Whitespace
             THEN rstrip(SubSeq(s, 1, Len(s) - 1)) ELSE s

\* C10 mutant: the text is used as typed.
strip_unstripped(s) == s

\* str.strip()
strip(s) == rstrip(lstrip(s))

\* Every id a file can be written for.
Identities == { strip(r) : r \in RawInputs } \ { <<>> }

\* C1 mutant: always the first scene of the catalog.
get_scene_first(idx) ==
  IF idx >= TOTAL_SCENES THEN None ELSE Some(SCENES[SCENE_IDS[1]])

\* C15 mutant: past the end of the catalog the scenes start over.
get_scene_wrap(idx) ==
  IF TOTAL_SCENES = 0 THEN None
  ELSE Some(SCENES[SCENE_IDS[(idx % TOTAL_SCENES) + 1]])

get_scene(idx) ==
  IF idx >= TOTAL_SCENES THEN None ELSE Some(SCENES[SCENE_IDS[idx + 1]])

\* C17 mutant: the comment box is stored as the third pairwise choice.
SceneResult_mixed(scene, f) ==
  [scene_id |-> scene.scene_id,
   movie_A  |-> [background |-> f.bgA, character |-> f.charA, cinematic |-> f.cineA],
   movie_B  |-> [background |-> f.bgB, character |-> f.charB, cinematic |-> f.cineB],
   pairwise |-> [background |-> f.pair_bg, character |-> f.pair_char,
                 cinematic |-> f.comment],
   comment  |-> f.pair_cine]

\* The dict appended by the Save Scene & Continue handler.
SceneResult(scene, f) ==
  [scene_id |-> scene.scene_id,
   movie_A  |-> [background |-> f.bgA, character |-> f.charA, cinematic |-> f.cineA],
   movie_B  |-> [background |-> f.bgB, character |-> f.charB, cinematic |-> f.cineB],
   pairwise |-> [background |-> f.pair_bg, character |-> f.pair_char,
                 cinematic |-> f.pair_cine],
   comment  |-> f.comment]

\* C13 mutant: the ratings of the two movies are exchanged.
MovieLevel_swapped(f) ==
  [movie_A  |-> [narrative |-> f.narB, character |-> f.charB_m, spatial |-> f.spaceB],
   movie_B  |-> [narrative |-> f.narA, character |-> f.charA_m, spatial |-> f.spaceA],
   pairwise |-> [narrative |-> f.pair_nar, character |-> f.pair_char,
                 spatial |-> f.pair_space]]

\* The dict passed to save_progress by the Submit Final Evaluation handler.
MovieLevel(f) ==
  [movie_A  |-> [narrative |-> f.narA, character |-> f.charA_m, spatial |-> f.spaceA],
   movie_B  |-> [narrative |-> f.narB, character |-> f.charB_m, spatial |-> f.spaceB],
   pairwise |-> [narrative |-> f.pair_nar, character |-> f.pair_char,
                 spatial |-> f.pair_space]]

\* C7 mutant: the snapshot is built from the counter before the increment.
data_stale(id, idx, results, movie_level) ==
  <<[k |-> "ldapid", v |-> id],
    [k |-> "progress", v |-> [completed_scenes |-> IF idx > 0 THEN idx - 1 ELSE 0,
                               total_scenes |-> TOTAL_SCENES]],
    [k |-> "scene_level", v |-> results]>>
  \o (IF movie_level # None THEN <<[k |-> "movie_level", v |-> movie_level]>> ELSE <<>>)

\* C16 mutant: the two counters are written at the top level.
data_flat(id, idx, results, movie_level) ==
  <<[k |-> "ldapid", v |-> id],
    [k |-> "completed_scenes", v |-> idx],
    [k |-> "total_scenes", v |-> TOTAL_SCENES],
    [k |-> "scene_level", v |-> results]>>
  \o (IF movie_level # None THEN <<[k |-> "movie_level", v |-> movie_level]>> ELSE <<>>)

\* C19 mutant: the counter is written as a 1-based scene number.
data_onebased(id, idx, results, movie_level) ==
  <<[k |-> "ldapid", v |-> id],
    [k |-> "progress", v |-> [completed_scenes |-> idx + 1,
                               total_scenes |-> TOTAL_SCENES]],
    [k |-> "scene_level", v |-> results]>>
  \o (IF movie_level # None THEN <<[k |-> "movie_level", v |-> movie_level]>> ELSE <<>>)

\* The dict built by save_progress, as its (key, value) items in insertion
\* order.  id and movie_level are optional values.
data(id, idx, results, movie_level) ==
  <<[k |-> "ldapid", v |-> id],
    [k |-> "progress", v |-> [completed_scenes |-> idx,
                               total_scenes |-> TOTAL_SCENES]],
    [k |-> "scene_level", v |-> results]>>
  \o (IF movie_level # None THEN <<[k |-> "movie_level", v |-> movie_level]>> ELSE <<>>)

\* json.dump: the text written, as the chunks it is emitted in.
json_dump(d) == <<[k |-> "{", v |-> <<>>]>> \o d \o <<[k |-> "}", v |-> <<>>]>>

NoFile == [exists |-> FALSE, content |-> <<>>]

\* open(out_path, "w") followed by json.dump: the file left behind.  cut is
\* the number of chunks that reached the file when the dump did not finish.
written(old, chunks, fate, cut) ==
  CASE fate = "ok"         -> [exists |-> TRUE, content |-> chunks]
    [] fate = "open_fails" -> old
    [] OTHER               -> [exists |-> TRUE, content |-> SubSeq(chunks, 1, cut)]

\* save_progress(movie_level): the files after the call, for the session
\* values at the time of the call.
save_progress(fs, id, idx, results, movie_level, fate, cut) ==
  [fs EXCEPT ![id[1]] =
     written(fs[id[1]], json_dump(data(id, idx, results, movie_level)), fate, cut)]

\* Number of chunks json.dump emits for the snapshot.
DumpLen(movie_level) == 5 + Len(movie_level)

\* C6 mutant: the flag is not consulted.
MovieLevelGate_noflag(scene, submitted) == scene = None

\* C9 mutant: the form is shown while scenes remain.
MovieLevelGate_noscene(scene, submitted) == ~submitted

\* The condition guarding the movie-level form.
MovieLevelGate(scene, submitted) == scene = None /\ ~submitted

\* C18 mutant: the identity prompt is handled whether or not an id is set.
IdentityGate_always(id) == TRUE

\* The condition guarding the identity prompt and its handler.
IdentityGate(id) == id = None

\* What a run of the script renders for the given session values when no
\* handler interrupts it.
Render(id, idx, submitted) ==
  IF id = None THEN "identity_gate"
  ELSE IF TOTAL_SCENES = 0 THEN "exception"
  ELSE IF get_scene(idx) # None THEN "scene_form"
  ELSE IF MovieLevelGate(get_scene(idx), submitted) THEN "movie_form"
  ELSE "all_done"

\* How a run of the script that executes no handler ends.
Rendered(id) ==
  IF id # None /\ TOTAL_SCENES = 0 THEN "ZeroDivisionError" ELSE "ignored"

\* ---------------------------------------------------------------- Init
Init ==
  /\ SCENE_IDS \in { SubSeq(AllSceneKeys, 1, n) : n \in 0..MaxScenes }
  /\ ldapid = None
  /\ scene_idx = 0
  /\ scene_results = <<>>
  /\ submitted_movie = FALSE
  /\ files = [i \in Identities |-> NoFile]
  /\ page = "identity_gate"
  /\ outcome = "ok"
  /\ writes = 0
  /\ last = "start"

\* ------------------------------------------------------------- actions
\* Session state initialisation of a run that finds no session state: a new
\* browser session, or the first run after the process was restarted.
FreshSession ==
  /\ ldapid' = None
  /\ scene_idx' = 0
  /\ scene_results' = <<>>
  /\ submitted_movie' = FALSE

\* End of a run whose handler called save_progress and, when the write went
\* through, st.rerun(): the rerun renders the page for the new session values.
AfterSaveAndRerun(fate, id, idx, submitted) ==
  CASE fate = "ok" ->
         /\ outcome' = (IF TOTAL_SCENES = 0 THEN "ZeroDivisionError" ELSE "ok")
         /\ page' = Render(id, idx, submitted)
    [] fate = "killed" ->
         /\ outcome' = "killed"
         /\ page' = "none"
    [] OTHER ->
         /\ outcome' = "OSError"
         /\ page' = "exception"

\* End of a run in which the clicked button is not rendered: no handler runs.
NoHandler ==
  /\ outcome' = Rendered(ldapid)
  /\ page' = Render(ldapid, scene_idx, submitted_movie)
  /\ writes' = 0
  /\ UNCHANGED <<session, files>>

\* A run of the script caused by a click on "Start Annotation" with raw in
\* the text box.
StartAnnotation(raw, fate, cut) ==
  /\ last' = "StartAnnotation"
  /\ UNCHANGED SCENE_IDS
  /\ IF IdentityGate(ldapid)
     THEN IF strip(raw) = <<>>
          THEN /\ outcome' = "st.error"
               /\ page' = "identity_gate"
               /\ writes' = 0
               /\ UNCHANGED <<session, files>>
          ELSE /\ files' = save_progress(files, Some(strip(raw)), scene_idx,
                                         scene_results, None, fate, cut)
               /\ writes' = 1
               /\ IF fate = "killed"
                  THEN FreshSession
                  ELSE /\ ldapid' = Some(strip(raw))
                       /\ UNCHANGED <<scene_idx, scene_results, submitted_movie>>
               /\ AfterSaveAndRerun(fate, Some(strip(raw)), scene_idx, submitted_movie)
     ELSE NoHandler

\* A run of the script caused by a click on "Save Scene & Continue" with the
\* widget values f.
SaveSceneAndContinue(f, fate, cut) ==
  /\ last' = "SaveSceneAndContinue"
  /\ UNCHANGED SCENE_IDS
  /\ IF ldapid # None /\ TOTAL_SCENES # 0 /\ get_scene(scene_idx) # None
     THEN LET scene == get_scene(scene_idx)[1]
              results == Append(scene_results, SceneResult(scene, f))
              idx == scene_idx + 1
          IN /\ files' = save_progress(files, ldapid, idx, results, None, fate, cut)
             /\ writes' = 1
             /\ IF fate = "killed"
                THEN FreshSession
                ELSE /\ scene_results' = results
                     /\ scene_idx' = idx
                     /\ UNCHANGED <<ldapid, submitted_movie>>
             /\ AfterSaveAndRerun(fate, ldapid, idx, submitted_movie)
     ELSE NoHandler

\* Scene ids of the scene forms this session has rendered so far: the forms a
\* click on "Save Scene & Continue" can come from.
FormsRendered ==
  { SCENES[SCENE_IDS[i]].scene_id :
      i \in 1..(IF scene_idx + 1 <= TOTAL_SCENES THEN scene_idx + 1 ELSE TOTAL_SCENES) }

\* A click on "Save Scene & Continue" made on the form that was rendered for
\* the scene shown.  The button has the same label on every scene form and
\* the handler takes the scene from get_scene(), so the run does not depend
\* on shown.
SaveSceneFromForm(shown, f, fate, cut) == SaveSceneAndContinue(f, fate, cut)

\* A run of the script caused by a click on "Submit Final Evaluation" with
\* the widget values f.
SubmitFinalEvaluation(f, fate, cut) ==
  /\ last' = "SubmitFinalEvaluation"
  /\ UNCHANGED SCENE_IDS
  /\ IF /\ ldapid # None
        /\ TOTAL_SCENES # 0
        /\ MovieLevelGate(get_scene(scene_idx), submitted_movie)
     THEN /\ files' = save_progress(files, ldapid, scene_idx, scene_results,
                                    Some(MovieLevel(f)), fate, cut)
          /\ writes' = 1
          /\ CASE fate = "ok" ->
                    /\ submitted_movie' = TRUE
                    /\ UNCHANGED <<ldapid, scene_idx, scene_results>>
                    /\ outcome' = "ok"
                    /\ page' = "movie_form"
               [] fate = "killed" ->
                    /\ FreshSession
                    /\ outcome' = "killed"
                    /\ page' = "none"
               [] OTHER ->
                    /\ UNCHANGED session
                    /\ outcome' = "OSError"
                    /\ page' = "exception"
     ELSE NoHandler

\* The browser opens a new session: the script runs with an empty
\* st.session_state; the files stay.
NewSession ==
  /\ last' = "NewSession"
  /\ FreshSession
  /\ page' = "identity_gate"
  /\ outcome' = "ok"
  /\ writes' = 0
  /\ UNCHANGED <<SCENE_IDS, files>>

\* The ways a dump of n chunks can go: cut is the number of chunks that
\* reached the file when it did not finish.
Writes(n) ==
  { <<fate, 0>> : fate \in {"ok", "open_fails"} }
    \cup ({"write_fails", "killed"} \X (0..(n - 1)))

DoStartAnnotation ==
  \E raw \in RawInputs :
     IF IdentityGate(ldapid) /\ strip(raw) # <<>>
     THEN \E w \in Writes(DumpLen(None)) : StartAnnotation(raw, w[1], w[2])
     ELSE StartAnnotation(raw, "ok", 0)

DoSaveSceneAndContinue ==
  IF ldapid # None /\ TOTAL_SCENES # 0 /\ get_scene(scene_idx) # None
  THEN \E shown \in FormsRendered, f \in SceneForms, w \in Writes(DumpLen(None)) :
          SaveSceneFromForm(shown, f, w[1], w[2])
  ELSE \E f \in SceneForms : SaveSceneAndContinue(f, "ok", 0)

DoSubmitFinalEvaluation ==
  IF /\ ldapid # None
     /\ TOTAL_SCENES # 0
     /\ MovieLevelGate(get_scene(scene_idx), submitted_movie)
  THEN \E f \in MovieForms :
          \E w \in Writes(DumpLen(Some(MovieLevel(f)))) :
             SubmitFinalEvaluation(f, w[1], w[2])
  ELSE \E f \in MovieForms : SubmitFinalEvaluation(f, "ok", 0)

Next ==
  \/ DoStartAnnotation
  \/ DoSaveSceneAndContinue
  \/ DoSubmitFinalEvaluation
  \/ NewSession

Spec == Init /\ [][Next]_vars

\* ------------------------------------------------------- reading a file
\* A file holds a whole document when the dump ran from the opening to the
\* closing brace.
Complete(content) ==
  /\ Len(content) >= 5
  /\ content[1].k = "{"
  /\ content[Len(content)].k = "}"

HasKey(content, key) == \E i \in 1..Len(content) : content[i].k = key

Field(content, key) ==
  content[CHOOSE i \in 1..Len(content) : content[i].k = key].v

\* The snapshot read back from a file that holds a whole document.
json_load(content) ==
  [ldapid           |-> Field(content, "ldapid"),
   completed_scenes |-> Field(content, "progress").completed_scenes,
   total_scenes     |-> Field(content, "progress").total_scenes,
   scene_level      |-> Field(content, "scene_level"),
   movie_level      |-> IF HasKey(content, "movie_level")
                        THEN Field(content, "movie_level") ELSE None]

Readable(id) == files[id].exists /\ Complete(files[id].content)

HandlerEvents == {"StartAnnotation", "SaveSceneAndContinue", "SubmitFinalEvaluation"}

\* Texts of the LDAP id box that hold nothing but whitespace.
BlankInputs == { r \in RawInputs : \A i \in 1..Len(r) : r[i] \in Whitespace }

\* ----------------------------------------------------------------- C1
\* C1: in every reachable state scene_results has scene_idx entries and its
\* i-th entry carries the scene_id of the i-th catalog record.
C1_ResultsFollowCatalog ==
  /\ Len(scene_results) = scene_idx
  /\ \A i \in 1..Len(scene_results) :
        /\ i <= TOTAL_SCENES
        /\ scene_results[i].scene_id = SCENES[SCENE_IDS[i]].scene_id

C1_Witness ==
  /\ last = "SaveSceneAndContinue"
  /\ outcome = "ok"
  /\ scene_idx = 2
  /\ Len(scene_results) = 2

\* ----------------------------------------------------------------- C2
\* C2: whenever a handler run has ended and the session has an identity, the
\* file of that identity holds a whole snapshot whose completed_scenes is
\* scene_idx and whose scene_level is scene_results.
C2_PersistedReflectsMemory ==
  (last \in HandlerEvents /\ ldapid # None) =>
     /\ Readable(ldapid[1])
     /\ json_load(files[ldapid[1]].content).completed_scenes = scene_idx
     /\ json_load(files[ldapid[1]].content).scene_level = scene_results

\* ----------------------------------------------------------------- C3
\* C3: a handler run that ends in a failed write leaves ldapid, scene_idx,
\* scene_results and submitted_movie as they were before the click.
C3_FailedWriteNoEffect ==
  [][outcome' = "OSError" => session' = session]_vars

\* ----------------------------------------------------------------- C4
\* C4: every file that exists holds a whole snapshot, never an empty or
\* truncated one.
C4_NoTornFile ==
  \A id \in Identities : files[id].exists => Complete(files[id].content)

\* ----------------------------------------------------------------- C5
\* C5: no step replaces the whole snapshot stored for an identity by a whole
\* snapshot with fewer completed scenes or without its movie_level entry.
C5_ProgressNeverLost ==
  [][\A id \in Identities :
        (Readable(id) /\ files'[id].exists /\ Complete(files'[id].content)) =>
           /\ json_load(files'[id].content).completed_scenes
                 >= json_load(files[id].content).completed_scenes
           /\ (json_load(files[id].content).movie_level # None
                 => json_load(files'[id].content).movie_level # None)]_vars

\* ----------------------------------------------------------------- C6
\* A final submission is accepted only when none was accepted before in the
\* session, and an accepted one stays accepted until the session ends.
AcceptedAtMostOnce ==
  /\ (last' = "SubmitFinalEvaluation" /\ outcome' = "ok")
        => (~submitted_movie /\ submitted_movie')
  /\ (submitted_movie /\ last' \in HandlerEvents) => submitted_movie'

\* C6 as stated: a second final submission ends in a StateError, writes
\* nothing and leaves the stored file as it is.
C6_SecondSubmitStateError ==
  [][/\ AcceptedAtMostOnce
     /\ (submitted_movie /\ last' = "SubmitFinalEvaluation") =>
           /\ outcome' = "StateError"
           /\ writes' = 0
           /\ files' = files]_vars

\* C6 (amended): a second final submission is ignored without an error
\* message, writes nothing and leaves the session and the stored file as
\* they are.
C6_SecondSubmitIgnored ==
  [][/\ AcceptedAtMostOnce
     /\ (submitted_movie /\ last' = "SubmitFinalEvaluation") =>
           /\ outcome' = "ignored"
           /\ writes' = 0
           /\ files' = files
           /\ session' = session]_vars

C6_Witness ==
  /\ submitted_movie
  /\ last = "SubmitFinalEvaluation"
  /\ outcome = "ignored"
  /\ Readable(ldapid[1])
  /\ json_load(files[ldapid[1]].content).movie_level # None

\* ----------------------------------------------------------------- C7
\* C7: a handler run that ends well made one save_progress call and the file
\* of the identity then holds the snapshot of the session after the
\* mutation; a run that was rejected or ignored made none and changed no
\* file.
C7_OneWritePerTransition ==
  [][/\ (last' \in HandlerEvents /\ outcome' = "ok") =>
           /\ writes' = 1
           /\ ldapid' # None
           /\ files'[ldapid'[1]].exists
           /\ Complete(files'[ldapid'[1]].content)
           /\ LET snap == json_load(files'[ldapid'[1]].content)
              IN /\ snap.ldapid = ldapid'
                 /\ snap.completed_scenes = scene_idx'
                 /\ snap.total_scenes = TOTAL_SCENES
                 /\ snap.scene_level = scene_results'
                 /\ (snap.movie_level # None) = submitted_movie'
           /\ \A id \in Identities \ {ldapid'[1]} : files'[id] = files[id]
     /\ (outcome' \in {"st.error", "ignored"}) =>
           /\ writes' = 0
           /\ files' = files
           /\ session' = session]_vars

C7_Witness ==
  /\ last = "SubmitFinalEvaluation"
  /\ outcome = "ok"
  /\ writes = 1
  /\ scene_idx = 2

\* ----------------------------------------------------------------- C8
\* C8: with an empty catalog, an accepted identity leads to the movie-level
\* form without an error.
C8_EmptyCatalogReachesMovieForm ==
  (TOTAL_SCENES = 0 /\ last = "StartAnnotation" /\ ldapid # None
     /\ Readable(ldapid[1])) =>
        (page = "movie_form" /\ outcome = "ok")

\* ----------------------------------------------------------------- C9
\* Position of the session in the workflow.
Phase(id, idx, submitted) ==
  IF id = None THEN 0
  ELSE IF idx < TOTAL_SCENES THEN 1
  ELSE IF ~submitted THEN 2
  ELSE 3

\* Handler runs move the session forward by at most one position (two when
\* the catalog is empty), append a scene result only for an identified
\* session with scenes left, and accept a final submission only when no
\* scene is left.
InOrder ==
  (last' \in HandlerEvents /\ outcome' # "killed") =>
     /\ Phase(ldapid', scene_idx', submitted_movie')
           >= Phase(ldapid, scene_idx, submitted_movie)
     /\ \/ Phase(ldapid', scene_idx', submitted_movie')
              <= Phase(ldapid, scene_idx, submitted_movie) + 1
        \/ (ldapid = None /\ TOTAL_SCENES = 0
              /\ Phase(ldapid', scene_idx', submitted_movie') = 2)
     /\ (Len(scene_results') > Len(scene_results))
           => (ldapid # None /\ scene_idx < TOTAL_SCENES)
     /\ (submitted_movie' /\ ~submitted_movie)
           => (ldapid # None /\ scene_idx = TOTAL_SCENES)

\* C9 as stated: transitions are in order and a final submission while
\* scenes remain ends in a StateError.
C9_InOrderStateError ==
  [][/\ InOrder
     /\ (last' = "SubmitFinalEvaluation" /\ ldapid # None
           /\ scene_idx < TOTAL_SCENES) =>
              /\ outcome' = "StateError"
              /\ session' = session
              /\ files' = files]_vars

\* C9 (amended): transitions are in order and a final submission while
\* scenes remain is ignored without an error message.
C9_InOrderIgnored ==
  [][/\ InOrder
     /\ (last' = "SubmitFinalEvaluation" /\ ldapid # None
           /\ scene_idx < TOTAL_SCENES) =>
              /\ outcome' = "ignored"
              /\ writes' = 0
              /\ session' = session
              /\ files' = files]_vars

C9_Witness ==
  /\ last = "SubmitFinalEvaluation"
  /\ outcome = "ignored"
  /\ ldapid # None
  /\ scene_idx > 0
  /\ scene_idx < TOTAL_SCENES

\* ---------------------------------------------------------------- C10
\* C10: a click on Start Annotation with an empty or whitespace-only text,
\* in a session without identity, shows the error, leaves the session
\* without identity and unchanged, and writes nothing.
C10_BlankIdentityRejected ==
  [][\A raw \in BlankInputs :
        (ldapid = None /\ \E fate \in Fates, cut \in 0..DumpLen(None) :
                             StartAnnotation(raw, fate, cut)) =>
           /\ ldapid' = None
           /\ session' = session
           /\ files' = files
           /\ writes' = 0
           /\ outcome' = "st.error"
           /\ page' = "identity_gate"]_vars

C10_Witness ==
  /\ last = "StartAnnotation"
  /\ outcome = "st.error"
  /\ ldapid = None
  /\ writes = 0

\* ---------------------------------------------------------------- C11
\* C11: a click on Save Scene & Continue that comes from a form rendered
\* for a scene other than the one at scene_idx ends in a StateError and
\* leaves scene_idx and scene_results as they are.
C11_StaleSceneRejected ==
  [][\A shown \in FormsRendered :
        (/\ ldapid # None
         /\ get_scene(scene_idx) # None
         /\ shown # SCENES[SCENE_IDS[scene_idx + 1]].scene_id
         /\ \E f \in SceneForms : SaveSceneFromForm(shown, f, "ok", 0)) =>
           /\ outcome' = "StateError"
           /\ scene_idx' = scene_idx
           /\ scene_results' = scene_results]_vars

\* ---------------------------------------------------------------- C13
\* The scene at position i of the catalog.
CatalogId(i) == SCENES[SCENE_IDS[i]].scene_id

\* C13: an accepted scene submission stores the entries saved so far followed
\* by an entry that carries the submitted values under the scene's id, and
\* an accepted movie-level submission sets submitted_movie and leaves a
\* snapshot with completed_scenes = total_scenes = N, the N scene entries of
\* the session in catalog order, and a movie_level entry that carries the
\* submitted values.
C13_EndToEnd ==
  [][/\ \A f \in SceneForms :
          (/\ ldapid # None
           /\ get_scene(scene_idx) # None
           /\ SaveSceneAndContinue(f, "ok", 0)) =>
             LET snap == json_load(files'[ldapid[1]].content)
                 e    == snap.scene_level[scene_idx + 1]
             IN /\ Complete(files'[ldapid[1]].content)
                /\ Len(snap.scene_level) = scene_idx + 1
                /\ SubSeq(snap.scene_level, 1, scene_idx) = scene_results
                /\ e.scene_id = CatalogId(scene_idx + 1)
                /\ e.movie_A = [background |-> f.bgA, character |-> f.charA,
                                cinematic |-> f.cineA]
                /\ e.movie_B = [background |-> f.bgB, character |-> f.charB,
                                cinematic |-> f.cineB]
                /\ e.pairwise = [background |-> f.pair_bg, character |-> f.pair_char,
                                 cinematic |-> f.pair_cine]
                /\ e.comment = f.comment
     /\ \A f \in MovieForms :
          (/\ ldapid # None
           /\ TOTAL_SCENES # 0
           /\ scene_idx = TOTAL_SCENES
           /\ ~submitted_movie
           /\ SubmitFinalEvaluation(f, "ok", 0)) =>
             LET snap == json_load(files'[ldapid[1]].content)
             IN /\ submitted_movie'
                /\ Complete(files'[ldapid[1]].content)
                /\ snap.completed_scenes = TOTAL_SCENES
                /\ snap.total_scenes = TOTAL_SCENES
                /\ Len(snap.scene_level) = TOTAL_SCENES
                /\ snap.scene_level = scene_results
                /\ \A i \in 1..TOTAL_SCENES :
                      snap.scene_level[i].scene_id = CatalogId(i)
                /\ snap.movie_level =
                     Some([movie_A  |-> [narrative |-> f.narA, character |-> f.charA_m,
                                         spatial |-> f.spaceA],
                           movie_B  |-> [narrative |-> f.narB, character |-> f.charB_m,
                                         spatial |-> f.spaceB],
                           pairwise |-> [narrative |-> f.pair_nar,
                                         character |-> f.pair_char,
                                         spatial |-> f.pair_space]])]_vars

\* The scenario of the specification: two scenes, ratings (3,4,5)/(2,2,2) on
\* the scenes, (5,5,5)/(1,1,1) and Movie A three times on the movie.
C13_Witness ==
  /\ TOTAL_SCENES = 2
  /\ last = "SubmitFinalEvaluation"
  /\ outcome = "ok"
  /\ submitted_movie
  /\ Readable(ldapid[1])
  /\ LET snap == json_load(files[ldapid[1]].content)
     IN /\ snap.completed_scenes = 2
        /\ snap.total_scenes = 2
        /\ Len(snap.scene_level) = 2
        /\ snap.scene_level[1].movie_A = [background |-> 3, character |-> 4, cinematic |-> 5]
        /\ snap.scene_level[2].movie_B = [background |-> 2, character |-> 2, cinematic |-> 2]
        /\ snap.movie_level[1].movie_A = [narrative |-> 5, character |-> 5, spatial |-> 5]
        /\ snap.movie_level[1].pairwise =
             [narrative |-> "Movie A", character |-> "Movie A", spatial |-> "Movie A"]

\* ---------------------------------------------------------------- C14
\* C14: in a session with an identity, submitted_movie is true exactly when
\* the snapshot stored for the identity has a movie_level entry.
C14_CompletedIffMovieLevel ==
  (ldapid # None) =>
     (submitted_movie <=>
        (/\ Readable(ldapid[1])
         /\ json_load(files[ldapid[1]].content).movie_level # None))

\* ---------------------------------------------------------------- C15
\* Steps that stay within the session: handler runs in which the process is
\* not stopped.
SameSession == last' \in HandlerEvents /\ outcome' # "killed"

\* C15: scene_idx is always between 0 and the number of scenes, and no step
\* within a session decreases it.
C15_CursorBoundedMonotone ==
  /\ scene_idx \in 0..TOTAL_SCENES
  /\ [][/\ scene_idx' \in 0..TOTAL_SCENES
        /\ SameSession => scene_idx' >= scene_idx]_vars

C15_Witness ==
  /\ TOTAL_SCENES = 2
  /\ scene_idx = TOTAL_SCENES
  /\ last = "SaveSceneAndContinue"
  /\ outcome = "ignored"

\* ---------------------------------------------------------------- C16
\* The top-level field names of a whole document.
Keys(content) ==
  { content[i].k : i \in 2..(Len(content) - 1) }

\* A whole document whose top-level fields are idKey, progress, scene_level
\* and possibly movie_level, with progress holding completed_scenes and
\* total_scenes, and with the identity id under idKey.
HasShape(id, content, idKey) ==
  /\ Keys(content) \in { {idKey, "progress", "scene_level"},
                         {idKey, "progress", "scene_level", "movie_level"} }
  /\ DOMAIN Field(content, "progress") = {"completed_scenes", "total_scenes"}
  /\ Field(content, idKey) = Some(id)

\* C16 as stated: every stored snapshot has the fields identity, progress
\* (completed_scenes, total_scenes), scene_level and optionally movie_level.
C16_FieldNamesIdentity ==
  \A id \in Identities : Readable(id) => HasShape(id, files[id].content, "identity")

\* C16 (amended): every stored snapshot has the fields ldapid, progress
\* (completed_scenes, total_scenes), scene_level and optionally movie_level;
\* the annotator's identity is stored under the field named ldapid.
C16_FieldNamesLdapid ==
  \A id \in Identities : Readable(id) => HasShape(id, files[id].content, "ldapid")

C16_Witness ==
  /\ ldapid # None
  /\ Readable(ldapid[1])
  /\ "movie_level" \in Keys(files[ldapid[1]].content)
  /\ Field(files[ldapid[1]].content, "ldapid") = Some(<<"a">>)

\* ---------------------------------------------------------------- C17
\* The six ratings and the three pairwise choices of a result, whatever the
\* names of its three criteria.
Ratings(r) ==
  { r.movie_A[c] : c \in DOMAIN r.movie_A } \cup { r.movie_B[c] : c \in DOMAIN r.movie_B }

Choices(r) == { r.pairwise[c] : c \in DOMAIN r.pairwise }

\* Every scene result held in memory, and every scene and movie-level result
\* of a stored snapshot, has six ratings in 1..5 and three pairwise choices
\* in allowed.
ResultsWithin(allowed) ==
  /\ \A i \in 1..Len(scene_results) :
        /\ Ratings(scene_results[i]) \subseteq 1..5
        /\ Choices(scene_results[i]) \subseteq allowed
  /\ \A id \in Identities :
        Readable(id) =>
          LET snap == json_load(files[id].content)
          IN /\ \A i \in 1..Len(snap.scene_level) :
                   /\ Cardinality(DOMAIN snap.scene_level[i].movie_A) = 3
                   /\ Cardinality(DOMAIN snap.scene_level[i].movie_B) = 3
                   /\ Cardinality(DOMAIN snap.scene_level[i].pairwise) = 3
                   /\ Ratings(snap.scene_level[i]) \subseteq 1..5
                   /\ Choices(snap.scene_level[i]) \subseteq allowed
             /\ \A i \in 1..Len(snap.movie_level) :
                   /\ Cardinality(DOMAIN snap.movie_level[i].movie_A) = 3
                   /\ Cardinality(DOMAIN snap.movie_level[i].movie_B) = 3
                   /\ Cardinality(DOMAIN snap.movie_level[i].pairwise) = 3
                   /\ Ratings(snap.movie_level[i]) \subseteq 1..5
                   /\ Choices(snap.movie_level[i]) \subseteq allowed

\* C17 as stated: the pairwise choices are drawn from {A, B, Tie}.
C17_ChoicesABTie == ResultsWithin({"A", "B", "Tie"})

\* C17 (amended): the pairwise choices are drawn from
\* {Movie A, Movie B, Tie}, the labels of the radio options.
C17_ChoicesMovieLabels == ResultsWithin({"Movie A", "Movie B", "Tie"})

C17_Witness ==
  /\ Len(scene_results) = 2
  /\ Choices(scene_results[2]) = {"Movie A", "Tie"}
  /\ submitted_movie
  /\ Readable(ldapid[1])
  /\ Len(json_load(files[ldapid[1]].content).movie_level) = 1

\* ---------------------------------------------------------------- C18
\* C18: an identity that is set is not empty, no handler run of the session
\* changes it, and a further click on Start Annotation runs no handler: it
\* writes nothing and leaves the session as it is.
C18_IdentitySetOnce ==
  /\ (ldapid # None => ldapid[1] # <<>>)
  /\ [][/\ (ldapid' # None => ldapid'[1] # <<>>)
        /\ (ldapid # None /\ SameSession) => ldapid' = ldapid
        /\ (ldapid # None /\ last' = "StartAnnotation") =>
              /\ outcome' \in {"ignored", "ZeroDivisionError"}
              /\ writes' = 0
              /\ files' = files
              /\ session' = session]_vars

C18_Witness ==
  /\ ldapid = Some(<<"a">>)
  /\ last = "StartAnnotation"
  /\ outcome = "ignored"
  /\ scene_idx = 1

\* ---------------------------------------------------------------- C19
\* C19: every stored snapshot counts as many completed scenes as it has
\* scene_level entries, at most total_scenes, and exactly total_scenes when
\* it has a movie_level entry.
C19_SnapshotConsistent ==
  \A id \in Identities :
     Readable(id) =>
       LET snap == json_load(files[id].content)
       IN /\ snap.completed_scenes = Len(snap.scene_level)
          /\ snap.completed_scenes <= snap.total_scenes
          /\ (snap.movie_level # None => snap.completed_scenes = snap.total_scenes)

C19_Witness ==
  /\ last = "SubmitFinalEvaluation"
  /\ outcome = "ok"
  /\ Readable(ldapid[1])
  /\ json_load(files[ldapid[1]].content).movie_level # None
  /\ json_load(files[ldapid[1]].content).completed_scenes = 3
  /\ Len(json_load(files[ldapid[1]].content).scene_level) = 3

\* ---------------------------------------------------------------- C20
\* One session in which every write goes through: the clicks of a user who
\* stays in the session, each run to its end.
LiveStartAnnotation ==
  \E raw \in RawInputs : StartAnnotation(raw, "ok", 0)

LiveSaveSceneAndContinue ==
  IF ldapid # None /\ TOTAL_SCENES # 0 /\ get_scene(scene_idx) # None
  THEN \E shown \in FormsRendered, f \in SceneForms :
          SaveSceneFromForm(shown, f, "ok", 0)
  ELSE \E f \in SceneForms : SaveSceneAndContinue(f, "ok", 0)

LiveSubmitFinalEvaluation ==
  \E f \in MovieForms : SubmitFinalEvaluation(f, "ok", 0)

LiveNext ==
  \/ LiveStartAnnotation
  \/ LiveSaveSceneAndContinue
  \/ LiveSubmitFinalEvaluation

\* The user keeps answering the form the page shows: a scene form that is
\* shown is eventually submitted, and so is the movie-level form.
SceneAccepted == LiveSaveSceneAndContinue /\ scene_idx' = scene_idx + 1

FinalAccepted == LiveSubmitFinalEvaluation /\ submitted_movie'

LiveSpec ==
  /\ Init
  /\ [][LiveNext]_vars
  /\ WF_vars(SceneAccepted)
  /\ WF_vars(FinalAccepted)

\* C20: a session that has an identity is eventually completed, it is
\* completed with exactly as many scene results as the catalog has scenes,
\* and once it is completed no click changes the session or the files.
C20_EventuallyCompleted ==
  /\ (ldapid # None) ~> submitted_movie
  /\ [](submitted_movie =>
           (scene_idx = TOTAL_SCENES /\ Len(scene_results) = TOTAL_SCENES))
  /\ [][submitted_movie =>
           (session' = session /\ files' = files /\ writes' = 0)]_vars

====
